---- MODULE Spec2Model ----
(***************************************************************************)
(* Earnings ledger and withdrawal workflow of the Telegram earning bot     *)
(* (src/bot.py): class Database over its SQLite tables, and the           *)
(* TelegramBot handlers that call it.                                      *)
(*                                                                         *)
(* Money is REAL in SQLite; the model uses whole currency units, so all    *)
(* sums are exact.  CURRENT_TIMESTAMP is UTC with one-second resolution;   *)
(* the model's clock counts whole UTC seconds.                             *)
(***************************************************************************)
EXTENDS Integers, Sequences, FiniteSets, TLC

(* ------------------------------ Config -------------------------------- *)
AD_EARNING_RATE == 5
REFERRAL_BONUS == 10
MINIMUM_WITHDRAWAL == 100
DAILY_EARNING_LIMIT == 50
AD_COOLDOWN_SECONDS == 60
MAX_ADS_PER_DAY == 10

\* Python's None / SQL NULL for integer columns; `if referred_by:` treats
\* None and 0 alike.
None == 0

(* ------------------------------ bounds -------------------------------- *)
MaxEarnings == 2        \* rows of the earnings table
MaxWithdrawals == 1     \* rows of the withdrawals table
MaxAbsBalance == 10     \* |balance|, |total_earned| explored by update_balance
MaxTicks == 4           \* clock ticks per day
MaxWatches == 3         \* rows of the user_ads table written by watch_ad
MaxDays == 1            \* day changes
MaxRequests == 2        \* create_withdrawal calls past their SELECTs
MaxAttempts == 11       \* presses of Watch Ad in one day of watching
MaxAds == 4             \* rows of the ads table

(* ------------------------------ inputs -------------------------------- *)
TelegramIds == {101, 102}

\* Config.ADMIN_IDS: the chat users to whom show_admin_panel and
\* show_admin_withdrawals send the admin buttons
ADMIN_IDS == {101}
Deltas == {-10, 10}
WithdrawAmounts == {10}
Statuses == {"pending", "approved", "rejected", "paid"}
valid_keys ==
    {"ad_earning_rate", "referral_bonus", "minimum_withdrawal",
     "daily_earning_limit", "max_ads_per_day", "ad_cooldown"}
\* values an admin stores with /set, per key
SettingChoices ==
    [ad_earning_rate |-> {AD_EARNING_RATE},
     referral_bonus |-> {REFERRAL_BONUS, 5},
     minimum_withdrawal |-> {MINIMUM_WITHDRAWAL, 10},
     daily_earning_limit |-> {DAILY_EARNING_LIMIT, 8},
     max_ads_per_day |-> {MAX_ADS_PER_DAY, 2, 0},
     ad_cooldown |-> {AD_COOLDOWN_SECONDS, 120}]
\* keys the ledger operations read
LedgerKeys == {"minimum_withdrawal"}
\* offset of the server's local time from UTC, in seconds
TZOffsets == {0 - 3600, 0, 3600}
SecondsPerDay == 24 * 60 * 60
TickLen == AD_COOLDOWN_SECONDS \div 2

(* ------------------------------- state -------------------------------- *)
VARIABLES
    users,          \* table users: row id = index
    earnings,       \* table earnings (append-only)
    withdrawals,    \* table withdrawals: row id = index
    ads,            \* table ads
    user_ads,       \* table user_ads
    daily_limits,   \* table daily_limits, keyed by <<user_id, date>>
    settings,       \* table settings, keyed by key
    clock,          \* UTC time in seconds
    tz,             \* local-time offset of the server
    ret,            \* what the last Database method returned or raised
    last,           \* the last entry point called, and its argument
    inflight,       \* create_withdrawal calls between their SELECTs and
                    \* their writes, each with the balance it read
    user_data       \* context.user_data of each chat user: a dict, kept as
                    \* the set of its <<key, value>> items

vars == <<users, earnings, withdrawals, ads, user_ads, daily_limits,
          settings, clock, tz, ret, last, inflight, user_data>>
tables == <<users, earnings, withdrawals, ads, user_ads, daily_limits,
            settings>>

(* ------------------------------ helpers ------------------------------- *)
RECURSIVE SumAmounts(_)
SumAmounts(rows) ==
    IF rows = <<>> THEN 0 ELSE Head(rows).amount + SumAmounts(Tail(rows))

\* SELECT id FROM users WHERE telegram_id = ?   (None when no row)
UserId(us, telegram_id) ==
    IF \E i \in 1..Len(us) : us[i].telegram_id = telegram_id
    THEN CHOOSE i \in 1..Len(us) : us[i].telegram_id = telegram_id
    ELSE None

\* datetime.date.today(): the server's local calendar date
today == (clock + tz) \div SecondsPerDay

\* datetime.datetime.now(): the server's local naive time
now == clock + tz

\* balance column of a user, 0 when there is no such row
BalanceOf(us, telegram_id) ==
    IF UserId(us, telegram_id) = None THEN 0
    ELSE us[UserId(us, telegram_id)].balance

TotalEarnedOf(us, telegram_id) ==
    IF UserId(us, telegram_id) = None THEN 0
    ELSE us[UserId(us, telegram_id)].total_earned

\* bookkeeping of an entry point: which call ran, on what (telegram_id or
\* withdrawal id), one more fact about it (the referrer of a registration,
\* the requester's balance before a withdrawal request), and whether it is
\* a status update that directly follows the successful request of the
\* same withdrawal; `amount` is the money argument of the call and `key`
\* the settings key of a call that has one
CalledKey(op, arg, aux, amount, key) ==
    last' = [op |-> op, arg |-> arg, aux |-> aux, amount |-> amount,
             key |-> key,
             after_create |->
                 /\ op = "update_withdrawal_status"
                 /\ last.op = "create_withdrawal"
                 /\ ret = "True"
                 /\ arg = Len(withdrawals)]

CalledWith(op, arg, aux, amount) == CalledKey(op, arg, aux, amount, "")

Called(op, arg, aux) == CalledWith(op, arg, aux, 0)

(* --------------------------- init_database ---------------------------- *)
default_settings ==
    [ad_earning_rate |-> AD_EARNING_RATE,
     referral_bonus |-> REFERRAL_BONUS,
     minimum_withdrawal |-> MINIMUM_WITHDRAWAL,
     daily_earning_limit |-> DAILY_EARNING_LIMIT,
     max_ads_per_day |-> MAX_ADS_PER_DAY,
     ad_cooldown |-> AD_COOLDOWN_SECONDS]

sample_ads ==
    << [earnings |-> AD_EARNING_RATE, is_active |-> 1],
       [earnings |-> AD_EARNING_RATE, is_active |-> 1],
       [earnings |-> AD_EARNING_RATE, is_active |-> 1] >>

init_database ==
    /\ users = <<>>
    /\ earnings = <<>>
    /\ withdrawals = <<>>
    /\ ads = sample_ads
    /\ user_ads = <<>>
    /\ daily_limits = {}
    /\ settings = default_settings

Init ==
    /\ init_database
    /\ clock = SecondsPerDay
    /\ tz = 0
    /\ ret = "None"
    /\ last = [op |-> "init", arg |-> None, aux |-> 0, amount |-> 0,
               key |-> "", after_create |-> FALSE]
    /\ inflight = <<>>
    /\ user_data = [t \in TelegramIds |-> {}]

(* --------------------------- user operations -------------------------- *)
\* add_referral_earning opens its own connection.  `locked` says whether
\* another connection holds an open write transaction: SQLite admits one
\* writer, so the UPDATE then fails with OperationalError "database is
\* locked" and nothing of this connection is committed.
add_referral_earning(us, es, sets, referrer_id, locked) ==
    LET bonus == sets["referral_bonus"]
        rid == UserId(us, referrer_id)
    IN  IF locked
        THEN [raised |-> TRUE, users |-> us, earnings |-> es]
        ELSE IF rid = None
        \* earnings.user_id is NOT NULL: the INSERT raises IntegrityError
        THEN [raised |-> TRUE, users |-> us, earnings |-> es]
        ELSE [raised |-> FALSE,
              users |-> [us EXCEPT ![rid].balance = @ + bonus,
                                   ![rid].total_earned = @ + bonus],
              earnings |-> Append(es, [user_id |-> rid, amount |-> bonus,
                                       type |-> "referral"])]

\* register_user with the referral credit on the connection of the INSERT:
\* no second writer, so the credit is not stopped by the lock.
register_user_sameconn(telegram_id, referred_by) ==
    LET row == [telegram_id |-> telegram_id, referred_by |-> referred_by,
                balance |-> 0, total_earned |-> 0, total_withdrawn |-> 0,
                is_banned |-> 0]
        r == add_referral_earning(users, earnings, settings, referred_by,
                                  FALSE)
    IN  /\ IF UserId(users, telegram_id) # None
           THEN /\ UNCHANGED <<users, earnings>>
                /\ ret' = "False"
           ELSE IF referred_by # None
           THEN IF r.raised
                THEN /\ UNCHANGED <<users, earnings>>
                     /\ ret' = "False"
                ELSE /\ users' = Append(r.users, row)
                     /\ earnings' = r.earnings
                     /\ ret' = "True"
           ELSE /\ users' = Append(users, row)
                /\ UNCHANGED earnings
                /\ ret' = "True"
        /\ UNCHANGED <<withdrawals, ads, user_ads, daily_limits, settings>>

\* register_user with conn.commit() before the referral credit: the INSERT
\* is durable and the lock is released when add_referral_earning runs, so a
\* credit that raises leaves the new row behind.
register_user_commitfirst(telegram_id, referred_by) ==
    LET row == [telegram_id |-> telegram_id, referred_by |-> referred_by,
                balance |-> 0, total_earned |-> 0, total_withdrawn |-> 0,
                is_banned |-> 0]
        r == add_referral_earning(Append(users, row), earnings, settings,
                                  referred_by, FALSE)
    IN  /\ IF UserId(users, telegram_id) # None
           THEN /\ UNCHANGED <<users, earnings>>
                /\ ret' = "False"
           ELSE IF referred_by # None
           THEN /\ users' = r.users
                /\ earnings' = r.earnings
                /\ ret' = IF r.raised THEN "raised" ELSE "True"
           ELSE /\ users' = Append(users, row)
                /\ UNCHANGED earnings
                /\ ret' = "True"
        /\ UNCHANGED <<withdrawals, ads, user_ads, daily_limits, settings>>

\* register_user with INSERT OR REPLACE: a second registration of a
\* telegram_id overwrites the row of the first.
register_user_replace(telegram_id, referred_by) ==
    LET row == [telegram_id |-> telegram_id, referred_by |-> referred_by,
                balance |-> 0, total_earned |-> 0, total_withdrawn |-> 0,
                is_banned |-> 0]
        uid == UserId(users, telegram_id)
    IN  /\ IF uid # None
           THEN /\ users' = [users EXCEPT ![uid] = row]
                /\ UNCHANGED earnings
                /\ ret' = "True"
           ELSE IF referred_by # None
           THEN /\ UNCHANGED <<users, earnings>>
                /\ ret' = "raised"
           ELSE /\ users' = Append(users, row)
                /\ UNCHANGED earnings
                /\ ret' = "True"
        /\ UNCHANGED <<withdrawals, ads, user_ads, daily_limits, settings>>

\* register_user: the INSERT opens a write transaction on `conn`; the
\* referral credit runs on a second connection while that transaction is
\* still open; an exception other than IntegrityError leaves the method
\* through `finally: conn.close()`, which rolls the INSERT back.
register_user(telegram_id, referred_by) ==
    LET row == [telegram_id |-> telegram_id, referred_by |-> referred_by,
                balance |-> 0, total_earned |-> 0, total_withdrawn |-> 0,
                is_banned |-> 0]
        r == add_referral_earning(users, earnings, settings, referred_by,
                                  TRUE)
    IN  /\ IF UserId(users, telegram_id) # None
           THEN \* UNIQUE(telegram_id): IntegrityError, return False
                /\ UNCHANGED <<users, earnings>>
                /\ ret' = "False"
           ELSE IF referred_by # None
           THEN IF r.raised
                THEN /\ UNCHANGED <<users, earnings>>
                     /\ ret' = "raised"
                ELSE /\ users' = Append(r.users, row)
                     /\ earnings' = r.earnings
                     /\ ret' = "True"
           ELSE /\ users' = Append(users, row)
                /\ UNCHANGED earnings
                /\ ret' = "True"
        /\ UNCHANGED <<withdrawals, ads, user_ads, daily_limits, settings>>

\* update_balance without `AND is_banned = 0` in the WHERE clause
update_balance_nobancheck(telegram_id, amount) ==
    LET uid == UserId(users, telegram_id)
    IN  /\ IF uid # None
           THEN /\ users' = [users EXCEPT ![uid].balance = @ + amount,
                                          ![uid].total_earned = @ + amount]
                /\ ret' = "True"
           ELSE /\ UNCHANGED users
                /\ ret' = "False"
        /\ UNCHANGED <<earnings, withdrawals, ads, user_ads, daily_limits,
                       settings>>

\* update_balance: one UPDATE, no lower bound on the result, total_earned
\* moves with every amount; rowcount is 0 for a missing or banned user.
update_balance(telegram_id, amount) ==
    LET uid == UserId(users, telegram_id)
    IN  /\ IF uid # None /\ users[uid].is_banned = 0
           THEN /\ users' = [users EXCEPT ![uid].balance = @ + amount,
                                          ![uid].total_earned = @ + amount]
                /\ ret' = "True"
           ELSE /\ UNCHANGED users
                /\ ret' = "False"
        /\ UNCHANGED <<earnings, withdrawals, ads, user_ads, daily_limits,
                       settings>>

\* setBanned(externalId, bool): writes users.is_banned.  The column is
\* declared and read in src/bot.py, but no statement there writes it.
set_banned(telegram_id, banned) ==
    LET uid == UserId(users, telegram_id)
    IN  /\ IF uid # None
           THEN users' = [users EXCEPT ![uid].is_banned = banned]
           ELSE UNCHANGED users
        /\ ret' = "None"
        /\ UNCHANGED <<earnings, withdrawals, ads, user_ads, daily_limits,
                       settings>>

(* ---------------------------- ad operations --------------------------- *)
\* rows of daily_limits for a user and a date
LimitRows(dl, user_id, date) ==
    {r \in dl : r.user_id = user_id /\ r.date = date}

\* watched_at values of a user's user_ads rows
WatchedAt(ua, user_id) ==
    {ua[i].watched_at : i \in {j \in 1..Len(ua) : ua[j].user_id = user_id}}

SetMax(S) == CHOOSE x \in S : \A y \in S : y <= x

\* can_watch_ad: the daily checks run only when today's row exists; the
\* cooldown compares the local naive now() with the UTC watched_at and
\* uses Config.AD_COOLDOWN_SECONDS.
can_watch_ad(telegram_id) ==
    LET user_id == UserId(users, telegram_id)
        limit == LimitRows(daily_limits, user_id, today)
        row == CHOOSE r \in limit : TRUE
        watched == WatchedAt(user_ads, user_id)
    IN  IF user_id = None
        THEN [ok |-> FALSE, reason |-> "User not found"]
        ELSE IF limit # {} /\ row.ads_watched >= settings["max_ads_per_day"]
        THEN [ok |-> FALSE, reason |-> "Daily ad limit reached"]
        ELSE IF limit # {}
                /\ row.earned_today >= settings["daily_earning_limit"]
        THEN [ok |-> FALSE, reason |-> "Daily earning limit reached"]
        ELSE IF watched # {}
                /\ now - SetMax(watched) < AD_COOLDOWN_SECONDS
        THEN [ok |-> FALSE, reason |-> "Wait between ads"]
        ELSE [ok |-> TRUE, reason |-> ""]

\* the upsert with the conflict taken on user_id alone: a counter of an
\* earlier date is continued
UpsertLimitUserOnly(dl, user_id, date, amount) ==
    IF \A r \in dl : r.user_id # user_id
    THEN dl \cup {[user_id |-> user_id, date |-> date, ads_watched |-> 1,
                   earned_today |-> amount]}
    ELSE {IF r.user_id = user_id
          THEN [r EXCEPT !.ads_watched = @ + 1, !.earned_today = @ + amount]
          ELSE r : r \in dl}

\* INSERT ... ON CONFLICT(user_id, date) DO UPDATE
UpsertLimit(dl, user_id, date, amount) ==
    IF LimitRows(dl, user_id, date) = {}
    THEN dl \cup {[user_id |-> user_id, date |-> date, ads_watched |-> 1,
                   earned_today |-> amount]}
    ELSE {IF r.user_id = user_id /\ r.date = date
          THEN [r EXCEPT !.ads_watched = @ + 1, !.earned_today = @ + amount]
          ELSE r : r \in dl}

\* record_ad_watch with the counter and the watch row committed and the
\* credit and the earning lost
record_ad_watch_partial(telegram_id, amount) ==
    LET user_id == UserId(users, telegram_id)
    IN  /\ IF user_id = None
           THEN /\ UNCHANGED <<user_ads, daily_limits>>
                /\ ret' = "raised"
           ELSE /\ daily_limits' =
                       UpsertLimit(daily_limits, user_id, today, amount)
                /\ user_ads' = Append(user_ads, [user_id |-> user_id,
                                                 watched_at |-> clock])
                /\ ret' = "raised"
        /\ UNCHANGED <<users, earnings, withdrawals, ads, settings>>

\* record_ad_watch: no check of its own; raises TypeError before any write
\* when the user does not exist; otherwise the four writes commit together.
record_ad_watch(telegram_id, amount) ==
    LET user_id == UserId(users, telegram_id)
    IN  /\ IF user_id = None
           THEN /\ UNCHANGED <<users, earnings, user_ads, daily_limits>>
                /\ ret' = "raised"
           ELSE /\ daily_limits' =
                       UpsertLimit(daily_limits, user_id, today, amount)
                /\ user_ads' = Append(user_ads, [user_id |-> user_id,
                                                 watched_at |-> clock])
                /\ users' = [users EXCEPT ![user_id].balance = @ + amount,
                                          ![user_id].total_earned = @ + amount]
                /\ earnings' = Append(earnings, [user_id |-> user_id,
                                                 amount |-> amount,
                                                 type |-> "ad"])
                /\ ret' = "None"
        /\ UNCHANGED <<withdrawals, ads, settings>>

\* get_available_ads: SELECT * FROM ads WHERE is_active = 1
get_available_ads == {i \in 1..Len(ads) : ads[i].is_active = 1}

(* ------------------------- withdrawal operations ---------------------- *)
\* create_withdrawal with the comparison of the amount and the balance
\* left out
create_withdrawal_nobalance(telegram_id, amount) ==
    LET user_id == UserId(users, telegram_id)
        min_withdrawal == settings["minimum_withdrawal"]
    IN  /\ IF amount < min_withdrawal
           THEN /\ UNCHANGED <<users, withdrawals>>
                /\ ret' = "False"
           ELSE IF user_id = None
           THEN /\ UNCHANGED <<users, withdrawals>>
                /\ ret' = "raised"
           ELSE /\ users' = [users EXCEPT ![user_id].balance = @ - amount]
                /\ withdrawals' =
                       Append(withdrawals,
                              [user_id |-> user_id, amount |-> amount,
                               status |-> "pending", processed_at |-> None])
                /\ ret' = "True"
        /\ UNCHANGED <<earnings, ads, user_ads, daily_limits, settings>>

\* create_withdrawal with the deduction committed before the balance is
\* compared
create_withdrawal_deductfirst(telegram_id, amount) ==
    LET user_id == UserId(users, telegram_id)
        min_withdrawal == settings["minimum_withdrawal"]
    IN  /\ IF amount < min_withdrawal
           THEN /\ UNCHANGED <<users, withdrawals>>
                /\ ret' = "False"
           ELSE IF user_id = None
           THEN /\ UNCHANGED <<users, withdrawals>>
                /\ ret' = "raised"
           ELSE IF amount > users[user_id].balance
           THEN /\ users' = [users EXCEPT ![user_id].balance = @ - amount]
                /\ UNCHANGED withdrawals
                /\ ret' = "False"
           ELSE /\ users' = [users EXCEPT ![user_id].balance = @ - amount]
                /\ withdrawals' =
                       Append(withdrawals,
                              [user_id |-> user_id, amount |-> amount,
                               status |-> "pending", processed_at |-> None])
                /\ ret' = "True"
        /\ UNCHANGED <<earnings, ads, user_ads, daily_limits, settings>>

\* create_withdrawal: minimum first, then the balance; the deduction and
\* the INSERT commit together; total_earned and total_withdrawn are not
\* written.
create_withdrawal(telegram_id, amount) ==
    LET user_id == UserId(users, telegram_id)
        min_withdrawal == settings["minimum_withdrawal"]
    IN  /\ IF amount < min_withdrawal
           THEN /\ UNCHANGED <<users, withdrawals>>
                /\ ret' = "False"
           ELSE IF user_id = None
           THEN \* cursor.fetchone()[0] on no row: TypeError
                /\ UNCHANGED <<users, withdrawals>>
                /\ ret' = "raised"
           ELSE IF amount > users[user_id].balance
           THEN /\ UNCHANGED <<users, withdrawals>>
                /\ ret' = "False"
           ELSE /\ users' = [users EXCEPT ![user_id].balance = @ - amount]
                /\ withdrawals' =
                       Append(withdrawals,
                              [user_id |-> user_id, amount |-> amount,
                               status |-> "pending", processed_at |-> None])
                /\ ret' = "True"
        /\ UNCHANGED <<earnings, ads, user_ads, daily_limits, settings>>

\* create_withdrawal, statement by statement.  First part: the two SELECTs
\* and the comparison with the minimum.  The call either returns at once
\* or holds the balance it read in the local variable `balance`.
create_withdrawal_select(telegram_id, amount) ==
    LET user_id == UserId(users, telegram_id)
        min_withdrawal == settings["minimum_withdrawal"]
    IN  /\ IF amount < min_withdrawal
           THEN /\ UNCHANGED inflight
                /\ ret' = "False"
           ELSE IF user_id = None
           THEN /\ UNCHANGED inflight
                /\ ret' = "raised"
           ELSE /\ inflight' = Append(inflight,
                                      [telegram_id |-> telegram_id,
                                       amount |-> amount,
                                       balance |-> users[user_id].balance])
                /\ ret' = "None"
        /\ UNCHANGED tables

\* The second part with the UPDATE writing the balance computed from the
\* value read before (read-modify-write in the program) in place of
\* `balance = balance - ?`.
create_withdrawal_write_stale(c) ==
    LET call == inflight[c]
        user_id == UserId(users, call.telegram_id)
    IN  /\ inflight' = SubSeq(inflight, 1, c - 1)
                         \o SubSeq(inflight, c + 1, Len(inflight))
        /\ IF call.amount > call.balance
           THEN /\ UNCHANGED <<users, withdrawals>>
                /\ ret' = "False"
           ELSE /\ users' = [users EXCEPT
                                ![user_id].balance = call.balance - call.amount]
                /\ withdrawals' =
                       Append(withdrawals,
                              [user_id |-> user_id, amount |-> call.amount,
                               status |-> "pending", processed_at |-> None])
                /\ ret' = "True"
        /\ UNCHANGED <<earnings, ads, user_ads, daily_limits, settings>>

\* Second part: the comparison with the balance read before, then the
\* UPDATE (relative to the stored balance), the INSERT and the commit.
create_withdrawal_write(c) ==
    LET call == inflight[c]
        user_id == UserId(users, call.telegram_id)
    IN  /\ inflight' = SubSeq(inflight, 1, c - 1)
                         \o SubSeq(inflight, c + 1, Len(inflight))
        /\ IF call.amount > call.balance
           THEN /\ UNCHANGED <<users, withdrawals>>
                /\ ret' = "False"
           ELSE /\ users' = [users EXCEPT
                                ![user_id].balance = @ - call.amount]
                /\ withdrawals' =
                       Append(withdrawals,
                              [user_id |-> user_id, amount |-> call.amount,
                               status |-> "pending", processed_at |-> None])
                /\ ret' = "True"
        /\ UNCHANGED <<earnings, ads, user_ads, daily_limits, settings>>

\* update_withdrawal_status with the credit of a rejection left out
update_withdrawal_status_nocredit(withdrawal_id, status) ==
    /\ IF withdrawal_id \in 1..Len(withdrawals)
       THEN withdrawals' =
                [withdrawals EXCEPT ![withdrawal_id].status = status,
                                    ![withdrawal_id].processed_at = clock]
       ELSE UNCHANGED withdrawals
    /\ ret' = "None"
    /\ UNCHANGED <<users, earnings, ads, user_ads, daily_limits, settings>>

\* update_withdrawal_status: the UPDATE is unconditional (WHERE id = ?), and
\* 'rejected' credits the amount to the owner each time it is written.
update_withdrawal_status(withdrawal_id, status) ==
    /\ IF withdrawal_id \in 1..Len(withdrawals)
       THEN /\ withdrawals' =
                   [withdrawals EXCEPT ![withdrawal_id].status = status,
                                       ![withdrawal_id].processed_at = clock]
            /\ IF status = "rejected"
               THEN users' =
                        [users EXCEPT
                           ![withdrawals[withdrawal_id].user_id].balance =
                               @ + withdrawals[withdrawal_id].amount]
               ELSE UNCHANGED users
       ELSE UNCHANGED <<users, withdrawals>>
    /\ ret' = "None"
    /\ UNCHANGED <<earnings, ads, user_ads, daily_limits, settings>>

(* ------------------------------ settings ------------------------------ *)
\* INSERT OR IGNORE in place of INSERT OR REPLACE: a key that has a row
\* keeps it.
update_setting_ignore(key, value) ==
    /\ settings' = [k \in DOMAIN settings \cup {key} |->
                        IF k \in DOMAIN settings THEN settings[k] ELSE value]
    /\ ret' = "None"
    /\ UNCHANGED <<users, earnings, withdrawals, ads, user_ads, daily_limits>>

\* INSERT OR REPLACE INTO settings (key, value): key is UNIQUE, the row of
\* the key is replaced, or inserted when the key has none
update_setting(key, value) ==
    /\ settings' = [k \in DOMAIN settings \cup {key} |->
                        IF k = key THEN value ELSE settings[k]]
    /\ ret' = "None"
    /\ UNCHANGED <<users, earnings, withdrawals, ads, user_ads, daily_limits>>

\* SELECT value FROM settings WHERE key = ?;
\* return result[0] if result else default
get_setting(key, default) ==
    IF key \in DOMAIN settings THEN settings[key] ELSE default

(* ------------------------- the ledger API (Spec) ---------------------- *)
RegisterUser ==
    \E t \in TelegramIds, referred_by \in TelegramIds \cup {None} :
        /\ register_user(t, referred_by)
        /\ Called("register_user", t, referred_by)
        /\ UNCHANGED <<clock, tz, inflight, user_data>>

UpdateBalance ==
    \E t \in TelegramIds, amount \in Deltas :
        /\ BalanceOf(users, t) + amount <= MaxAbsBalance
        /\ BalanceOf(users, t) + amount >= 0 - MaxAbsBalance
        /\ TotalEarnedOf(users, t) + amount <= MaxAbsBalance
        /\ TotalEarnedOf(users, t) + amount >= 0 - MaxAbsBalance
        /\ update_balance(t, amount)
        /\ CalledWith("update_balance", t, 0, amount)
        /\ UNCHANGED <<clock, tz, inflight, user_data>>

RecordAdWatch ==
    \E t \in TelegramIds, ad_id \in 1..Len(ads) :
        /\ Len(earnings) < MaxEarnings
        /\ record_ad_watch(t, ads[ad_id].earnings)
        /\ CalledWith("record_ad_watch", t, 0, ads[ad_id].earnings)
        /\ UNCHANGED <<clock, tz, inflight, user_data>>

CreateWithdrawal ==
    \E t \in TelegramIds, amount \in WithdrawAmounts :
        /\ Len(withdrawals) < MaxWithdrawals
        /\ create_withdrawal(t, amount)
        /\ CalledWith("create_withdrawal", t, BalanceOf(users, t), amount)
        /\ UNCHANGED <<clock, tz, inflight, user_data>>

UpdateWithdrawalStatus ==
    \E withdrawal_id \in 1..(Len(withdrawals) + 1), status \in Statuses :
        /\ \A i \in 1..Len(users) : users[i].balance <= MaxAbsBalance
        /\ update_withdrawal_status(withdrawal_id, status)
        /\ Called("update_withdrawal_status", withdrawal_id, 0)
        /\ UNCHANGED <<clock, tz, inflight, user_data>>

UpdateSetting ==
    \E key \in LedgerKeys :
        \E value \in SettingChoices[key] :
            /\ update_setting(key, value)
            /\ CalledKey("update_setting", None, value, 0, key)
            /\ UNCHANGED <<clock, tz, inflight, user_data>>

Next ==
    \/ RegisterUser
    \/ UpdateBalance
    \/ RecordAdWatch
    \/ CreateWithdrawal
    \/ UpdateWithdrawalStatus
    \/ UpdateSetting

Spec == Init /\ [][Next]_vars

\* The withdrawal workflow alone: the entry points that can move a balance
\* into, through and out of the withdrawals table.
NextWithdrawal ==
    \/ RegisterUser
    \/ UpdateBalance
    \/ CreateWithdrawal
    \/ UpdateWithdrawalStatus
    \/ UpdateSetting

SpecWithdrawal == Init /\ [][NextWithdrawal]_vars

\* The request side alone: balances are funded by update_balance and
\* record_ad_watch and drawn by create_withdrawal; no request is
\* adjudicated.
NextRequest ==
    \/ RegisterUser
    \/ UpdateBalance
    \/ RecordAdWatch
    \/ CreateWithdrawal
    \/ UpdateSetting

SpecRequest == Init /\ [][NextRequest]_vars

(* ------------------ create_withdrawal, statement by statement --------- *)
\* The calls reach the Database from coroutines of one event loop;
\* create_withdrawal is a plain function and handle_withdraw_input has no
\* await between reading the message and the return of create_withdrawal:
\* a call that has started runs to its return before any other code of the
\* program runs.  IdleAlways lets program code run in between.
IdleAlways == TRUE

Idle == inflight = <<>>

BeginCreateWithdrawal ==
    \E t \in TelegramIds, amount \in WithdrawAmounts :
        /\ Idle
        /\ Len(withdrawals) + Len(inflight) < MaxRequests
        /\ create_withdrawal_select(t, amount)
        /\ IF inflight' = inflight
           THEN CalledWith("create_withdrawal", t, BalanceOf(users, t),
                           amount)
           ELSE CalledWith("create_withdrawal_select", t,
                           BalanceOf(users, t), amount)
        /\ UNCHANGED <<clock, tz, user_data>>

FinishCreateWithdrawal ==
    \E c \in 1..Len(inflight) :
        /\ create_withdrawal_write(c)
        /\ CalledWith("create_withdrawal", inflight[c].telegram_id,
                      BalanceOf(users, inflight[c].telegram_id),
                      inflight[c].amount)
        /\ UNCHANGED <<clock, tz, user_data>>

Fund ==
    /\ Idle
    /\ UpdateBalance

Configure ==
    /\ Idle
    /\ UpdateSetting

Join ==
    /\ Idle
    /\ RegisterUser

NextConcurrent ==
    \/ Join
    \/ Fund
    \/ Configure
    \/ BeginCreateWithdrawal
    \/ FinishCreateWithdrawal

SpecConcurrent == Init /\ [][NextConcurrent]_vars

(* ----------------------- TelegramBot handlers ------------------------- *)
\* start: the referral code of the deep link resolves to the telegram_id
\* of its owner; register_user is called only when get_user finds no row.
start(telegram_id, referred_by) ==
    IF UserId(users, telegram_id) = None
    THEN register_user(telegram_id, referred_by)
    ELSE /\ ret' = "None"
         /\ UNCHANGED tables

\* watch_ad: can_watch_ad, get_available_ads, random.choice and
\* record_ad_watch run without an await in between.
watch_ad(telegram_id) ==
    IF ~can_watch_ad(telegram_id).ok
    THEN /\ ret' = can_watch_ad(telegram_id).reason
         /\ UNCHANGED tables
    ELSE IF get_available_ads = {}
    THEN /\ ret' = "No ads available"
         /\ UNCHANGED tables
    ELSE \E ad \in get_available_ads :
             record_ad_watch(telegram_id, ads[ad].earnings)

(* --------------------------- callback queries ------------------------- *)
\* query.data is kept as the sequence of its parts between underscores:
\* data.split("_").  data.startswith(p + "_") is then "the first part is p
\* and another part follows".
StartsWith(data, prefix) ==
    /\ Len(data) > Len(prefix)
    /\ SubSeq(data, 1, Len(prefix)) = prefix

\* context.user_data[key] = value
SetItem(d, key, value) == {p \in d : p[1] # key} \cup {<<key, value>>}

\* callback data that only redraw a message
Menus ==
    {<<"earn", "money">>, <<"referral">>, <<"my", "account">>,
     <<"withdraw">>, <<"support">>, <<"admin", "panel">>,
     <<"back", "to", "menu">>}

\* handle_admin_callback: admin_broadcast arms the broadcast prompt, the
\* withdraw_action_ branch parses the action and the id and updates the
\* withdrawal; every other branch redraws a view.
handle_admin_callback(telegram_id, data) ==
    IF data = <<"admin", "broadcast">>
    THEN /\ user_data' = [user_data EXCEPT ![telegram_id] =
                              SetItem(@, "awaiting_broadcast", "True")]
         /\ ret' = "None"
         /\ UNCHANGED tables
    ELSE IF StartsWith(data, <<"withdraw", "action">>)
    THEN /\ IF data[3] = "approve"
            THEN update_withdrawal_status(data[4], "approved")
            ELSE IF data[3] = "reject"
            THEN update_withdrawal_status(data[4], "rejected")
            ELSE ret' = "None" /\ UNCHANGED tables
         /\ UNCHANGED user_data
    ELSE /\ ret' = "None"
         /\ UNCHANGED <<tables, user_data>>

\* handle_callback: the branches are tried in the order of the source; the
\* withdraw_ branch stands before the admin_ branch.
handle_callback(telegram_id, data) ==
    IF data = <<"watch", "ad">>
    THEN /\ watch_ad(telegram_id)
         /\ UNCHANGED user_data
    ELSE IF data \in Menus
    THEN /\ ret' = "None"
         /\ UNCHANGED <<tables, user_data>>
    ELSE IF StartsWith(data, <<"withdraw">>)
    THEN /\ user_data' = [user_data EXCEPT ![telegram_id] =
                              SetItem(@, "withdraw_method", data[2])]
         /\ ret' = "None"
         /\ UNCHANGED tables
    ELSE IF StartsWith(data, <<"admin">>)
    THEN handle_admin_callback(telegram_id, data)
    ELSE /\ ret' = "None"
         /\ UNCHANGED <<tables, user_data>>

(* --------------- callers that are not serialized by a loop ------------ *)
\* Several connections use the database at once (threads, or a second
\* process): a create_withdrawal that has made its SELECTs can be overtaken
\* by any committed write of another caller.  SQLite admits one write
\* transaction at a time, so the writes of a call are one step.
SelectForWithdrawal ==
    \E t \in TelegramIds, amount \in WithdrawAmounts :
        /\ Len(withdrawals) + Len(inflight) < MaxRequests
        /\ create_withdrawal_select(t, amount)
        /\ CalledWith("create_withdrawal_select", t, BalanceOf(users, t),
                      amount)
        /\ UNCHANGED <<clock, tz, user_data>>

\* `aux` is the balance the call read in its SELECT
CommitWithdrawal ==
    \E c \in 1..Len(inflight) :
        /\ create_withdrawal_write(c)
        /\ CalledWith("create_withdrawal", inflight[c].telegram_id,
                      inflight[c].balance, inflight[c].amount)
        /\ UNCHANGED <<clock, tz, user_data>>

RejectWithdrawal ==
    \E withdrawal_id \in 1..Len(withdrawals) :
        /\ \A i \in 1..Len(users) : users[i].balance <= MaxAbsBalance
        /\ update_withdrawal_status(withdrawal_id, "rejected")
        /\ CalledWith("update_withdrawal_status", withdrawal_id, 0,
                      withdrawals[withdrawal_id].amount)
        /\ UNCHANGED <<clock, tz, inflight, user_data>>

NextInterleaved ==
    \/ RegisterUser
    \/ UpdateSetting
    \/ RecordAdWatch
    \/ SelectForWithdrawal
    \/ CommitWithdrawal
    \/ RejectWithdrawal

SpecInterleaved == Init /\ [][NextInterleaved]_vars

(* ------------- handlers, from one suspension point to the next -------- *)
\* A handler is a coroutine: the event loop can run other code only where
\* the handler awaits.  A handler that has made its check and not yet its
\* write is kept in `inflight` with what it holds in local variables.
\* AtAwaitAlways lets the loop switch anywhere.
AtAwaitAlways == TRUE

\* no handler is between its check and its write
AtAwait == inflight = <<>>

\* watch_ad up to random.choice: a denial is answered (await) and the
\* handler returns; otherwise the ad is chosen.
watch_ad_check(telegram_id) ==
    /\ IF ~can_watch_ad(telegram_id).ok
       THEN /\ ret' = can_watch_ad(telegram_id).reason
            /\ UNCHANGED inflight
       ELSE IF get_available_ads = {}
       THEN /\ ret' = "No ads available"
            /\ UNCHANGED inflight
       ELSE /\ ret' = "None"
            /\ \E ad \in get_available_ads :
                   inflight' = Append(inflight,
                                      [telegram_id |-> telegram_id,
                                       amount |-> ads[ad].earnings,
                                       balance |-> BalanceOf(users, telegram_id),
                                       handler |-> "watch_ad"])
    /\ UNCHANGED tables

\* watch_ad from record_ad_watch to the await of the success message
watch_ad_record(c) ==
    /\ record_ad_watch(inflight[c].telegram_id, inflight[c].amount)
    /\ inflight' = SubSeq(inflight, 1, c - 1)
                      \o SubSeq(inflight, c + 1, Len(inflight))

\* handle_withdraw_input, amount branch, up to the call of
\* create_withdrawal: the minimum from get_setting, the balance from
\* get_user; each refusal is answered (await) and the handler returns.
withdraw_input_check(telegram_id, amount) ==
    /\ IF amount < get_setting("minimum_withdrawal", MINIMUM_WITHDRAWAL)
       THEN /\ ret' = "withdraw_minimum"
            /\ UNCHANGED inflight
       ELSE IF UserId(users, telegram_id) = None
       THEN /\ ret' = "raised"
            /\ UNCHANGED inflight
       ELSE IF amount > BalanceOf(users, telegram_id)
       THEN /\ ret' = "Insufficient balance"
            /\ UNCHANGED inflight
       ELSE /\ ret' = "None"
            /\ inflight' = Append(inflight,
                                  [telegram_id |-> telegram_id,
                                   amount |-> amount,
                                   balance |-> BalanceOf(users, telegram_id),
                                   handler |-> "handle_withdraw_input"])
    /\ UNCHANGED tables

\* handle_withdraw_input from create_withdrawal to the await of the reply
withdraw_input_create(c) ==
    /\ create_withdrawal(inflight[c].telegram_id, inflight[c].amount)
    /\ inflight' = SubSeq(inflight, 1, c - 1)
                      \o SubSeq(inflight, c + 1, Len(inflight))

(* ----------------------- the withdrawal conversation ----------------- *)
\* a text message is the sequence of its characters
Digits == {"0", "1", "2", "3", "4", "5", "6", "7", "8", "9"}

\* str.isdigit()
isdigit(text) == Len(text) > 0 /\ \A i \in 1..Len(text) : text[i] \in Digits

DigitValue(c) ==
    CHOOSE v \in 0..9 :
        c = <<"0", "1", "2", "3", "4", "5", "6", "7", "8", "9">>[v + 1]

\* float(text) of a text of decimal digits; a text of letters raises
\* ValueError
RECURSIVE float(_)
float(text) ==
    IF Len(text) = 0 THEN 0
    ELSE 10 * float(SubSeq(text, 1, Len(text) - 1))
           + DigitValue(text[Len(text)])

\* key in context.user_data
HasKey(d, key) == \E p \in d : p[1] = key

\* context.user_data.pop(key, None)
Pop(d, key) == {p \in d : p[1] # key}

\* handle_withdraw_input: without a chosen method the text is refused; with
\* a method and no stored mobile number the text is taken as the mobile
\* number (11 digits) and stored; with both the text is taken as the amount,
\* and after create_withdrawal the method and the mobile number are popped.
handle_withdraw_input(telegram_id, text) ==
    LET d == user_data[telegram_id]
    IN  IF ~HasKey(d, "withdraw_method")
        THEN /\ ret' = "Please select payment method first"
             /\ UNCHANGED <<tables, user_data>>
        ELSE IF ~HasKey(d, "withdraw_mobile")
        THEN IF ~isdigit(text) \/ Len(text) # 11
             THEN /\ ret' = "Invalid mobile number"
                  /\ UNCHANGED <<tables, user_data>>
             ELSE /\ user_data' = [user_data EXCEPT ![telegram_id] =
                                       SetItem(@, "withdraw_mobile", text)]
                  /\ ret' = "Enter withdrawal amount"
                  /\ UNCHANGED tables
        ELSE IF ~isdigit(text)
        THEN /\ ret' = "Invalid amount"
             /\ UNCHANGED <<tables, user_data>>
        ELSE IF float(text) < get_setting("minimum_withdrawal",
                                          MINIMUM_WITHDRAWAL)
        THEN /\ ret' = "withdraw_minimum"
             /\ UNCHANGED <<tables, user_data>>
        ELSE IF UserId(users, telegram_id) = None
        THEN /\ ret' = "raised"
             /\ UNCHANGED <<tables, user_data>>
        ELSE IF float(text) > BalanceOf(users, telegram_id)
        THEN /\ ret' = "Insufficient balance"
             /\ UNCHANGED <<tables, user_data>>
        ELSE /\ create_withdrawal(telegram_id, float(text))
             /\ user_data' = [user_data EXCEPT ![telegram_id] =
                                   Pop(Pop(@, "withdraw_method"),
                                       "withdraw_mobile")]

(* ---------------------------- admin commands ------------------------- *)
\* handle_admin_command without the test of Config.ADMIN_IDS
handle_admin_command_nocheck(telegram_id, command, has_args, args) ==
    IF ~has_args
    THEN /\ ret' = "raised"
         /\ UNCHANGED tables
    ELSE IF command = "/set" /\ Len(args) >= 2
    THEN IF args[1] \in valid_keys
         THEN update_setting(args[1], args[2])
         ELSE /\ ret' = "Invalid key"
              /\ UNCHANGED tables
    ELSE IF command = "/add_ad" /\ Len(args) >= 3
    THEN IF Len(args) = 5
         THEN /\ ads' = Append(ads, [earnings |-> args[5], is_active |-> 1])
              /\ ret' = "None"
              /\ UNCHANGED <<users, earnings, withdrawals, user_ads,
                             daily_limits, settings>>
         ELSE /\ ret' = "Invalid format"
              /\ UNCHANGED tables
    ELSE /\ ret' = "None"
         /\ UNCHANGED tables

\* handle_admin_command: a sender outside Config.ADMIN_IDS is answered
\* "Access Denied".  `args` is context.args, the words after the command;
\* has_args is FALSE when the library hands over None (it fills args for a
\* CommandHandler; this handler is registered as a MessageHandler), and
\* len(None) then raises TypeError.  /set stores args[1:] joined under
\* args[0] when that is a valid key; /add_ad joins the args, splits them at
\* "|" and inserts the ad; /broadcast sends messages and writes nothing.
handle_admin_command(telegram_id, command, has_args, args) ==
    IF telegram_id \notin ADMIN_IDS
    THEN /\ ret' = "Access Denied"
         /\ UNCHANGED tables
    ELSE IF ~has_args
    THEN /\ ret' = "raised"
         /\ UNCHANGED tables
    ELSE IF command = "/set" /\ Len(args) >= 2
    THEN IF args[1] \in valid_keys
         THEN update_setting(args[1], args[2])
         ELSE /\ ret' = "Invalid key"
              /\ UNCHANGED tables
    ELSE IF command = "/add_ad" /\ Len(args) >= 3
    THEN IF Len(args) = 5
         THEN /\ ads' = Append(ads, [earnings |-> args[5], is_active |-> 1])
              /\ ret' = "None"
              /\ UNCHANGED <<users, earnings, withdrawals, user_ads,
                             daily_limits, settings>>
         ELSE /\ ret' = "Invalid format"
              /\ UNCHANGED tables
    ELSE /\ ret' = "None"
         /\ UNCHANGED tables

(* ------------------- the reward path, settings fixed ------------------ *)
InitReward ==
    /\ users = <<>>
    /\ earnings = <<>>
    /\ withdrawals = <<>>
    /\ ads = sample_ads
    /\ user_ads = <<>>
    /\ daily_limits = {}
    /\ \E m \in SettingChoices["max_ads_per_day"],
          l \in SettingChoices["daily_earning_limit"] :
           settings = [default_settings EXCEPT !["max_ads_per_day"] = m,
                                               !["daily_earning_limit"] = l]
    /\ clock = SecondsPerDay
    /\ tz \in TZOffsets
    /\ ret = "None"
    /\ last = [op |-> "init", arg |-> None, aux |-> 0, amount |-> 0,
               key |-> "", after_create |-> FALSE]
    /\ inflight = <<>>
    /\ user_data = [t \in TelegramIds |-> {}]

Start ==
    \E t \in TelegramIds :
        \E referred_by \in {None} \cup {users[i].telegram_id : i \in 1..Len(users)} :
            /\ start(t, referred_by)
            /\ Called("start", t, referred_by)
            /\ UNCHANGED <<clock, tz, inflight, user_data>>

WatchAd ==
    \E t \in TelegramIds :
        /\ Len(user_ads) < MaxWatches
        /\ watch_ad(t)
        /\ Called("watch_ad", t, 0)
        /\ UNCHANGED <<clock, tz, inflight, user_data>>

Tick ==
    /\ clock % SecondsPerDay < MaxTicks * TickLen
    /\ clock' = clock + TickLen
    /\ Called("tick", None, 0)
    /\ UNCHANGED <<tables, tz, ret, inflight, user_data>>

NextDay ==
    /\ clock \div SecondsPerDay <= MaxDays
    /\ clock' = (clock \div SecondsPerDay + 1) * SecondsPerDay
    /\ Called("tick", None, 0)
    /\ UNCHANGED <<tables, tz, ret, inflight, user_data>>

NextReward ==
    \/ Start
    \/ WatchAd
    \/ Tick
    \/ NextDay

SpecReward == InitReward /\ [][NextReward]_vars

(* ------------------------- handlers in the event loop ----------------- *)
StartWatchAd ==
    \E t \in TelegramIds :
        /\ AtAwait
        /\ Len(user_ads) + Len(inflight) < MaxWatches
        /\ watch_ad_check(t)
        /\ Called("watch_ad_check", t, 0)
        /\ UNCHANGED <<clock, tz, user_data>>

FinishWatchAd ==
    \E c \in 1..Len(inflight) :
        /\ inflight[c].handler = "watch_ad"
        /\ watch_ad_record(c)
        /\ CalledWith("watch_ad_record", inflight[c].telegram_id, 0,
                      inflight[c].amount)
        /\ UNCHANGED <<clock, tz, user_data>>

StartWithdrawInput ==
    \E t \in TelegramIds, amount \in WithdrawAmounts :
        /\ AtAwait
        /\ Len(withdrawals) + Len(inflight) < MaxRequests
        /\ withdraw_input_check(t, amount)
        /\ CalledWith("withdraw_input_check", t, BalanceOf(users, t), amount)
        /\ UNCHANGED <<clock, tz, user_data>>

FinishWithdrawInput ==
    \E c \in 1..Len(inflight) :
        /\ inflight[c].handler = "handle_withdraw_input"
        /\ withdraw_input_create(c)
        /\ CalledWith("withdraw_input_create", inflight[c].telegram_id,
                      BalanceOf(users, inflight[c].telegram_id),
                      inflight[c].amount)
        /\ UNCHANGED <<clock, tz, user_data>>

\* time passes while the loop waits for updates
Elapse ==
    /\ Idle
    /\ Tick

NextHandlers ==
    \/ Join
    \/ Configure
    \/ Elapse
    \/ StartWatchAd
    \/ FinishWatchAd
    \/ StartWithdrawInput
    \/ FinishWithdrawInput

SpecHandlers == Init /\ [][NextHandlers]_vars

(* ------------------- one day of watching, cooldown kept --------------- *)
\* Default settings, a server in any of the time zones, and a pause of the
\* cooldown before every press of the Watch Ad button.
InitDay ==
    /\ init_database
    /\ clock = SecondsPerDay
    /\ tz \in TZOffsets
    /\ ret = "None"
    /\ last = [op |-> "init", arg |-> None, aux |-> 0, amount |-> 0,
               key |-> "", after_create |-> FALSE]
    /\ inflight = <<>>
    /\ user_data = [t \in TelegramIds |-> {}]

WaitCooldown ==
    /\ clock % SecondsPerDay < MaxAttempts * AD_COOLDOWN_SECONDS
    /\ clock' = clock + AD_COOLDOWN_SECONDS
    /\ Called("cooldown", None, 0)
    /\ UNCHANGED <<tables, tz, ret, inflight, user_data>>

\* the chat user whose day is followed
Watcher == 101

Attempt ==
    /\ last.op = "cooldown"
    /\ Len(user_ads) < MaxAttempts
    /\ watch_ad(Watcher)
    /\ Called("watch_ad", Watcher, 0)
    /\ UNCHANGED <<clock, tz, inflight, user_data>>

NextDayOfWatching ==
    \/ Start
    \/ WaitCooldown
    \/ Attempt

SpecDay == InitDay /\ [][NextDayOfWatching]_vars

(* ----------------------- the buttons of the chat ---------------------- *)
\* callback data of the buttons the bot sends: the menus, Watch Ad, the
\* payment methods, the admin panel, and Approve / Reject for each
\* withdrawal
CallbackData ==
    Menus
    \cup {<<"watch", "ad">>, <<"withdraw", "bkash">>,
          <<"admin", "withdrawals">>, <<"admin", "broadcast">>}
    \cup {<<"withdraw", "action", a, w>> :
              a \in {"approve", "reject"}, w \in 1..MaxWithdrawals}

\* the buttons a chat user has been sent
ButtonsOf(telegram_id) ==
    IF telegram_id \in ADMIN_IDS THEN CallbackData
    ELSE {data \in CallbackData :
             ~StartsWith(data, <<"admin">>) /\ Len(data) < 4}

HandleCallback ==
    \E t \in TelegramIds : \E data \in ButtonsOf(t) :
        /\ data = <<"watch", "ad">> => Len(user_ads) < MaxWatches
        /\ Len(data) = 4 => data[4] \in 1..Len(withdrawals)
        /\ handle_callback(t, data)
        /\ CalledKey("handle_callback", t,
                     IF Len(data) = 4 THEN data[4] ELSE 0, 0,
                     IF Len(data) = 4 THEN data[3] ELSE data[1])
        /\ UNCHANGED <<clock, tz, inflight>>

NextButtons ==
    \/ RegisterUser
    \/ UpdateBalance
    \/ UpdateSetting
    \/ CreateWithdrawal
    \/ HandleCallback

SpecButtons == Init /\ [][NextButtons]_vars

(* ------------------- updates from admins and from others ------------- *)
\* command messages that the filter of handle_admin_command lets through,
\* as the command and the words after it
CommandTexts ==
    {[command |-> "/set", args |-> <<"minimum_withdrawal", 10>>],
     [command |-> "/set", args |-> <<"support_contact", 1>>],
     [command |-> "/set", args |-> <<"ad_cooldown">>],
     [command |-> "/add_ad", args |-> <<"title", "|", "text", "|", 10>>],
     [command |-> "/add_ad", args |-> <<"title", "text", "10">>],
     [command |-> "/broadcast", args |-> <<"hello">>]}

AdminCommand ==
    \E t \in TelegramIds, text \in CommandTexts, has_args \in BOOLEAN :
        /\ Len(ads) < MaxAds
        /\ handle_admin_command(t, text.command, has_args, text.args)
        /\ CalledKey("handle_admin_command", t, 0, 0, text.command)
        /\ UNCHANGED <<clock, tz, inflight, user_data>>

\* a callback query with any of the callback data, whether or not the
\* sender was sent such a button, from a chat user outside Config.ADMIN_IDS
AnyCallback ==
    \E t \in TelegramIds \ ADMIN_IDS, data \in CallbackData :
        /\ data = <<"watch", "ad">> => Len(user_ads) < MaxWatches
        /\ handle_callback(t, data)
        /\ CalledKey("handle_callback", t,
                     IF Len(data) = 4 THEN data[4] ELSE 0, 0,
                     IF Len(data) = 4 THEN data[3] ELSE data[1])
        /\ UNCHANGED <<clock, tz, inflight>>

\* /start without a referral code
StartPlain ==
    \E t \in TelegramIds :
        /\ register_user(t, None)
        /\ Called("register_user", t, None)
        /\ UNCHANGED <<clock, tz, inflight, user_data>>

Deposit ==
    \E t \in TelegramIds, amount \in {d \in Deltas : d > 0} :
        /\ BalanceOf(users, t) + amount <= MaxAbsBalance
        /\ TotalEarnedOf(users, t) + amount <= MaxAbsBalance
        /\ update_balance(t, amount)
        /\ CalledWith("update_balance", t, 0, amount)
        /\ UNCHANGED <<clock, tz, inflight, user_data>>

NextAccess ==
    \/ StartPlain
    \/ Deposit
    \/ CreateWithdrawal
    \/ AdminCommand
    \/ AnyCallback

SpecAccess == Init /\ [][NextAccess]_vars

(* --------------------- the withdrawal conversation ------------------- *)
\* the buttons of the main menu and of show_withdraw_menu
ConversationData ==
    {<<"withdraw">>, <<"withdraw", "bkash">>, <<"withdraw", "nagad">>,
     <<"back", "to", "menu">>}

\* text messages: a mobile number, an amount, a word
Texts ==
    {<<"0", "1", "7", "1", "1", "1", "1", "1", "1", "1", "1">>,
     <<"1", "0">>,
     <<"h", "i">>}

PressButton ==
    \E t \in TelegramIds, data \in ConversationData :
        /\ handle_callback(t, data)
        /\ CalledKey("handle_callback", t, 0, 0,
                     IF StartsWith(data, <<"withdraw">>)
                     THEN "withdraw_method" ELSE data[1])
        /\ UNCHANGED <<clock, tz, inflight>>

SendText ==
    \E t \in TelegramIds, text \in Texts :
        /\ Len(withdrawals) < MaxWithdrawals
        /\ handle_withdraw_input(t, text)
        /\ CalledKey("handle_withdraw_input", t, 0, 0,
                     IF HasKey(user_data[t], "withdraw_mobile")
                     THEN "withdraw_mobile" ELSE "")
        /\ UNCHANGED <<clock, tz, inflight>>

NextConversation ==
    \/ StartPlain
    \/ Deposit
    \/ UpdateSetting
    \/ PressButton
    \/ SendText

SpecConversation == Init /\ [][NextConversation]_vars

(* --------------------------- process restart ------------------------- *)
\* init_database with INSERT OR REPLACE for the default settings
init_database_replace ==
    /\ settings' = [k \in DOMAIN settings \cup DOMAIN default_settings |->
                        IF k \in DOMAIN default_settings
                        THEN default_settings[k] ELSE settings[k]]
    /\ ads' = IF Len(ads) = 0 THEN sample_ads ELSE ads
    /\ UNCHANGED <<users, earnings, withdrawals, user_ads, daily_limits>>

\* init_database on a store that exists: CREATE TABLE IF NOT EXISTS finds
\* the tables; INSERT OR IGNORE adds a default only for a key that has no
\* row (key is UNIQUE); the sample ads are inserted when COUNT(*) of ads
\* is 0.
init_database_rerun ==
    /\ settings' = [k \in DOMAIN settings \cup DOMAIN default_settings |->
                        IF k \in DOMAIN settings
                        THEN settings[k] ELSE default_settings[k]]
    /\ ads' = IF Len(ads) = 0 THEN sample_ads ELSE ads
    /\ UNCHANGED <<users, earnings, withdrawals, user_ads, daily_limits>>

\* the process is started again on the same database file: Database()
\* runs init_database; user_data and the handlers under way lived in the
\* memory of the old process
Restart ==
    /\ init_database_rerun
    /\ ret' = "None"
    /\ user_data' = [t \in TelegramIds |-> {}]
    /\ inflight' = <<>>
    /\ Called("init_database", None, 0)
    /\ UNCHANGED <<clock, tz>>

NextRestart ==
    \/ StartPlain
    \/ Deposit
    \/ RecordAdWatch
    \/ CreateWithdrawal
    \/ AdminCommand
    \/ Restart

SpecRestart == Init /\ [][NextRestart]_vars

(* ------------------------ counters over several days ----------------- *)
NextCounters ==
    \/ RegisterUser
    \/ RecordAdWatch
    \/ NextDay

SpecCounters == InitDay /\ [][NextCounters]_vars

(* --------------------------- referral statistics ---------------------- *)
\* get_referral_stats: the users row of telegram_id gives its id; total and
\* active select the users whose referred_by column equals that id;
\* earnings sums the referral rows of that id.
get_referral_stats(telegram_id) ==
    LET user_id == UserId(users, telegram_id)
        referred == {i \in 1..Len(users) : users[i].referred_by = user_id}
        earning == {i \in referred :
                       \E e \in 1..Len(earnings) : earnings[e].user_id = i}
        own == SelectSeq(earnings,
                         LAMBDA e : e.user_id = user_id /\ e.type = "referral")
    IN  IF user_id = None
        THEN [total |-> 0, active |-> 0, earnings |-> 0]
        ELSE [total |-> Cardinality(referred),
              active |-> Cardinality(earning),
              earnings |-> SumAmounts(own)]

GetReferralStats ==
    \E t \in TelegramIds :
        /\ ret' = get_referral_stats(t)
        /\ Called("get_referral_stats", t, 0)
        /\ UNCHANGED <<tables, clock, tz, inflight, user_data>>

NextReferral ==
    \/ Start
    \/ RecordAdWatch
    \/ GetReferralStats

SpecReferral == Init /\ [][NextReferral]_vars

(* ------------------------- accounts that are banned ------------------ *)
SetBanned ==
    \E t \in TelegramIds, banned \in {0, 1} :
        /\ set_banned(t, banned)
        /\ Called("set_banned", t, banned)
        /\ UNCHANGED <<clock, tz, inflight, user_data>>

NextBan ==
    \/ RegisterUser
    \/ SetBanned
    \/ UpdateBalance
    \/ RecordAdWatch
    \/ WatchAd
    \/ CreateWithdrawal
    \/ UpdateSetting

SpecBan == Init /\ [][NextBan]_vars

(* ------------------- decisions under changing settings --------------- *)
\* the settings that can_watch_ad and create_withdrawal are meant to obey
DecisionKeys ==
    {"max_ads_per_day", "daily_earning_limit", "ad_cooldown",
     "minimum_withdrawal"}

SetSetting ==
    \E key \in DecisionKeys :
        \E value \in SettingChoices[key] :
            /\ update_setting(key, value)
            /\ CalledKey("update_setting", None, value, 0, key)
            /\ UNCHANGED <<clock, tz, inflight, user_data>>

NextSettings ==
    \/ RegisterUser
    \/ SetSetting
    \/ WatchAd
    \/ Tick
    \/ CreateWithdrawal

SpecSettings == Init /\ [][NextSettings]_vars

(* -------------------------- the settings table ------------------------ *)
\* keys of the settings table: the six that init_database stores and one
\* that it does not
StoreKeys == valid_keys \cup {"support_contact"}

StoreValues(key) ==
    IF key \in valid_keys THEN SettingChoices[key] ELSE {1, 2}

\* defaults a caller supplies to get_setting
Defaults == {None, 7}

PutSetting ==
    \E key \in StoreKeys :
        \E value \in StoreValues(key) :
            /\ update_setting(key, value)
            /\ CalledKey("update_setting", None, value, 0, key)
            /\ UNCHANGED <<clock, tz, inflight, user_data>>

GetSetting ==
    \E key \in StoreKeys, default \in Defaults :
        /\ ret' = get_setting(key, default)
        /\ CalledKey("get_setting", None, default, 0, key)
        /\ UNCHANGED <<tables, clock, tz, inflight, user_data>>

NextStore ==
    \/ PutSetting
    \/ GetSetting

SpecStore == Init /\ [][NextStore]_vars

(* ------------------------------- claims ------------------------------- *)
\* sum of the earnings rows of a user
EarnedSum(user_id) ==
    SumAmounts(SelectSeq(earnings, LAMBDA e : e.user_id = user_id))

\* sum of the withdrawals of a user whose status is in S
WithdrawnSum(user_id, S) ==
    SumAmounts(SelectSeq(withdrawals,
                         LAMBDA w : w.user_id = user_id /\ w.status \in S))

\* C1: over any sequence of register_user, record_ad_watch, update_balance,
\* create_withdrawal and update_withdrawal_status calls every account's
\* balance is >= 0.
C1_BalanceNonNegative ==
    \A i \in 1..Len(users) : users[i].balance >= 0

\* C2: every account's balance equals the sum of its earning events minus
\* the sum of its withdrawals that are pending, approved or paid.
C2_BalanceReconciles ==
    \A i \in 1..Len(users) :
        users[i].balance =
            EarnedSum(i) - WithdrawnSum(i, {"pending", "approved", "paid"})

\* C3: a status update of a withdrawal that is no longer pending fails with
\* NotPending and changes neither the withdrawal nor any balance (so the
\* amount is credited back at most once).
C3_SetStatusOnlyFromPending ==
    [][(/\ last'.op = "update_withdrawal_status"
        /\ last'.arg \in 1..Len(withdrawals)
        /\ withdrawals[last'.arg].status # "pending")
       => (/\ withdrawals'[last'.arg].status = withdrawals[last'.arg].status
           /\ users' = users
           /\ ret' = "NotPending")]_vars

\* C4: every change of a withdrawal's status is one of pending->approved,
\* pending->rejected, approved->paid (so rejected and paid are final).
C4_LegalTransitions ==
    [][\A w \in 1..Len(withdrawals) :
          withdrawals'[w].status # withdrawals[w].status
          => <<withdrawals[w].status, withdrawals'[w].status>> \in
                 {<<"pending", "approved">>, <<"pending", "rejected">>,
                  <<"approved", "paid">>}]_vars

\* C5: with the settings fixed, no daily counter's ads_watched exceeds
\* max_ads_per_day.
C5_AdsWatchedWithinMax ==
    \A r \in daily_limits : r.ads_watched <= settings["max_ads_per_day"]

\* C6: with the settings fixed, no daily counter's earned_today exceeds
\* daily_earning_limit.
C6_EarnedTodayWithinLimit ==
    \A r \in daily_limits : r.earned_today <= settings["daily_earning_limit"]

\* C7: a reward attempt made less than ad_cooldown seconds after the
\* account's most recent recorded reward is denied and changes no table.
C7_CooldownDenies ==
    [][\A t \in TelegramIds :
          (/\ last'.op = "watch_ad"
           /\ last'.arg = t
           /\ UserId(users, t) # None
           /\ WatchedAt(user_ads, UserId(users, t)) # {}
           /\ clock - SetMax(WatchedAt(user_ads, UserId(users, t)))
                  < settings["ad_cooldown"])
          => (/\ tables' = tables
              /\ ret' \notin {"None", "True"})]_vars

\* C8: registering a new account with an existing referrer creates the
\* account, raises the referrer's balance and total_earned by referral_bonus
\* and appends one referral earning; a registration that hits the duplicate
\* changes no account and no earning.
C8_ReferralCreditedOnce ==
    [][/\ (/\ last'.op = "register_user"
           /\ UserId(users, last'.arg) = None
           /\ last'.aux # None
           /\ UserId(users, last'.aux) # None)
          => LET rid == UserId(users, last'.aux)
                 bonus == settings["referral_bonus"]
             IN  /\ UserId(users', last'.arg) # None
                 /\ users'[rid].balance = users[rid].balance + bonus
                 /\ users'[rid].total_earned = users[rid].total_earned + bonus
                 /\ earnings' = Append(earnings, [user_id |-> rid,
                                                  amount |-> bonus,
                                                  type |-> "referral"])
       /\ (/\ last'.op = "register_user"
           /\ UserId(users, last'.arg) # None)
          => (users' = users /\ earnings' = earnings)]_vars

C10_TotalWithdrawnIsPaidSum ==
    \A i \in 1..Len(users) :
        users[i].total_withdrawn = WithdrawnSum(i, {"paid"})

\* C11: a create_withdrawal call succeeds only with an amount of at least
\* minimum_withdrawal and at most the requester's balance; on success the
\* balance drops by exactly the amount, exactly one pending withdrawal of
\* that amount is appended, and no other column of any account changes
\* (total_earned and total_withdrawn stay as they were).
C11_CreateWithdrawalContract ==
    [][(/\ last'.op = "create_withdrawal"
        /\ ret' = "True")
       => LET user_id == UserId(users, last'.arg)
              amount == last'.amount
          IN  /\ user_id # None
              /\ amount >= settings["minimum_withdrawal"]
              /\ amount <= users[user_id].balance
              /\ users' = [users EXCEPT ![user_id].balance = @ - amount]
              /\ withdrawals' =
                     Append(withdrawals,
                            [user_id |-> user_id, amount |-> amount,
                             status |-> "pending", processed_at |-> None])]_vars

\* C11 witness: a request succeeded for less than the whole balance of an
\* account that has earned something, and its pending row is in the table.
C11_Witness ==
    /\ last.op = "create_withdrawal"
    /\ ret = "True"
    /\ BalanceOf(users, last.arg) > 0
    /\ BalanceOf(users, last.arg) = last.aux - last.amount
    /\ TotalEarnedOf(users, last.arg) > 0
    /\ withdrawals[Len(withdrawals)].status = "pending"
    /\ withdrawals[Len(withdrawals)].amount = last.amount

\* C14: a create_withdrawal call whose amount is below minimum_withdrawal,
\* or above the balance of the requester's account, returns the error result
\* (False) and changes no account and no withdrawal.
C14_RefusedRequestChangesNothing ==
    [][(/\ last'.op = "create_withdrawal"
        /\ \/ last'.amount < settings["minimum_withdrawal"]
           \/ /\ UserId(users, last'.arg) # None
              /\ last'.amount > BalanceOf(users, last'.arg))
       => (/\ ret' = "False"
           /\ users' = users
           /\ withdrawals' = withdrawals)]_vars

\* C14 witness: a request of at least the minimum was refused for an
\* account whose positive balance is smaller than the amount.
C14_Witness ==
    /\ last.op = "create_withdrawal"
    /\ ret = "False"
    /\ last.amount >= settings["minimum_withdrawal"]
    /\ UserId(users, last.arg) # None
    /\ BalanceOf(users, last.arg) > 0
    /\ BalanceOf(users, last.arg) < last.amount
    /\ BalanceOf(users, last.arg) = last.aux

AdsWatched(dl, user_id, date) ==
    IF LimitRows(dl, user_id, date) = {} THEN 0
    ELSE (CHOOSE r \in LimitRows(dl, user_id, date) : TRUE).ads_watched

EarnedToday(dl, user_id, date) ==
    IF LimitRows(dl, user_id, date) = {} THEN 0
    ELSE (CHOOSE r \in LimitRows(dl, user_id, date) : TRUE).earned_today

\* C13: a record_ad_watch call leaves either none of its effects (no table
\* changes) or all of them: today's counter of the user has ads_watched + 1
\* and earned_today + amount, one 'ad' earning of the amount is appended,
\* one watch row is appended, and the user's balance and total_earned are
\* both raised by the amount.
C13_RewardAllOrNothing ==
    [][last'.op = "record_ad_watch"
       => LET user_id == UserId(users, last'.arg)
              amount == last'.amount
          IN  \/ tables' = tables
              \/ /\ user_id # None
                 /\ AdsWatched(daily_limits', user_id, today)
                        = AdsWatched(daily_limits, user_id, today) + 1
                 /\ EarnedToday(daily_limits', user_id, today)
                        = EarnedToday(daily_limits, user_id, today) + amount
                 /\ earnings' = Append(earnings, [user_id |-> user_id,
                                                  amount |-> amount,
                                                  type |-> "ad"])
                 /\ Len(user_ads') = Len(user_ads) + 1
                 /\ users' = [users EXCEPT
                                 ![user_id].balance = @ + amount,
                                 ![user_id].total_earned = @ + amount]]_vars

\* C13 witness: a user's second reward of the day has been recorded, the
\* counter, the event log and the cached total agreeing on both.
C13_Witness ==
    /\ last.op = "record_ad_watch"
    /\ ret = "None"
    /\ UserId(users, last.arg) # None
    /\ AdsWatched(daily_limits, UserId(users, last.arg), today) = 2
    /\ EarnedToday(daily_limits, UserId(users, last.arg), today)
           = 2 * last.amount
    /\ Len(earnings) = 2
    /\ Len(user_ads) = 2

\* is_banned of a user, 0 when there is no such row
IsBanned(us, telegram_id) ==
    IF UserId(us, telegram_id) = None THEN 0
    ELSE us[UserId(us, telegram_id)].is_banned

\* C15: a reward for a banned account - record_ad_watch, or the Watch Ad
\* button - is refused: it does not return normally and no account, counter,
\* watch row or earning changes.
C15_BannedRewardRefused ==
    [][(/\ last'.op \in {"record_ad_watch", "watch_ad"}
        /\ IsBanned(users, last'.arg) = 1)
       => (/\ ret' # "None"
           /\ users' = users
           /\ daily_limits' = daily_limits
           /\ user_ads' = user_ads
           /\ earnings' = earnings)]_vars

\* C16: a create_withdrawal call for a banned account is refused: it does
\* not return True, no withdrawal is created and no balance changes.
C16_BannedWithdrawalRefused ==
    [][(/\ last'.op = "create_withdrawal"
        /\ IsBanned(users, last'.arg) = 1)
       => (/\ ret' # "True"
           /\ users' = users
           /\ withdrawals' = withdrawals)]_vars

\* C17: update_balance on a banned account returns the error result (False)
\* and leaves every account as it was, whatever the amount.
C17_BannedAdjustRefused ==
    [][(/\ last'.op = "update_balance"
        /\ IsBanned(users, last'.arg) = 1)
       => (/\ ret' = "False"
           /\ users' = users)]_vars

\* C17 witness: update_balance was called with a negative amount on a banned
\* account that holds a balance, and returned False.
C17_Witness ==
    /\ last.op = "update_balance"
    /\ last.amount < 0
    /\ IsBanned(users, last.arg) = 1
    /\ BalanceOf(users, last.arg) > 0
    /\ ret = "False"

\* C18: update_balance with a negative amount larger than the account's
\* balance is refused: it returns the error result and changes no account.
C18_OverdrawingAdjustRefused ==
    [][(/\ last'.op = "update_balance"
        /\ UserId(users, last'.arg) # None
        /\ last'.amount < 0
        /\ BalanceOf(users, last'.arg) + last'.amount < 0)
       => (/\ ret' = "False"
           /\ users' = users)]_vars

\* C19: no step lowers an account's total_earned or total_withdrawn, and
\* update_balance changes total_earned only when its amount is positive.
C19_TotalsMonotonic ==
    [][/\ \A i \in 1..Len(users) :
             /\ users'[i].total_earned >= users[i].total_earned
             /\ users'[i].total_withdrawn >= users[i].total_withdrawn
       /\ (/\ last'.op = "update_balance"
           /\ last'.amount <= 0)
          => \A i \in 1..Len(users) :
                 users'[i].total_earned = users[i].total_earned]_vars

\* C20: every account's total_earned equals the sum of the amounts of its
\* earnings rows.
C20_TotalEarnedIsEventSum ==
    \A i \in 1..Len(users) : users[i].total_earned = EarnedSum(i)

C22_DecisionsUseStoredSettings ==
    [][LET t == last'.arg
           uid == UserId(users, t)
           limit == LimitRows(daily_limits, uid, today)
           watched == WatchedAt(user_ads, uid)
           capped == \E r \in limit :
                         \/ r.ads_watched >= settings["max_ads_per_day"]
                         \/ r.earned_today >= settings["daily_earning_limit"]
           cooling == /\ watched # {}
                      /\ now - SetMax(watched) < settings["ad_cooldown"]
       IN  /\ (last'.op = "watch_ad" /\ uid # None)
              => IF capped \/ cooling
                 THEN ret' # "None" /\ tables' = tables
                 ELSE ret' = "None"
           /\ (last'.op = "create_withdrawal" /\ uid # None)
              => IF last'.amount < settings["minimum_withdrawal"]
                 THEN ret' = "False" /\ tables' = tables
                 ELSE (last'.amount <= BalanceOf(users, t)) => ret' = "True"
      ]_vars

\* C23: the settings table is read-your-writes.  update_setting(key, v)
\* leaves v stored under key and every other key as it was; no other call
\* changes the table; get_setting(key, default) returns the stored value of
\* the key, or the default when the key has none; a get_setting that
\* directly follows the update_setting of its key returns the value just
\* written.
C23_SettingsReadYourWrites ==
    [][/\ last'.op = "update_setting"
          => /\ last'.key \in DOMAIN settings'
             /\ settings'[last'.key] = last'.aux
             /\ DOMAIN settings' = DOMAIN settings \cup {last'.key}
             /\ \A k \in DOMAIN settings \ {last'.key} :
                    settings'[k] = settings[k]
       /\ last'.op # "update_setting" => settings' = settings
       /\ last'.op = "get_setting"
          => /\ last'.key \in DOMAIN settings => ret' = settings[last'.key]
             /\ last'.key \notin DOMAIN settings => ret' = last'.aux
             /\ (last.op = "update_setting" /\ last.key = last'.key)
                => ret' = last.aux
      ]_vars

\* C23 witness: a key that already had a value was written again with
\* another value and then read back.
C23_Witness ==
    /\ last.op = "get_setting"
    /\ last.key = "minimum_withdrawal"
    /\ ret = 10
    /\ settings["minimum_withdrawal"] = 10

\* accounts whose registration named the account of telegram_id as referrer
\* (register_user stores the referrer it is given in referred_by)
ReferredBy(telegram_id) ==
    {i \in 1..Len(users) : users[i].referred_by = telegram_id}

C25_TenRewardsADay ==
    [][\A t \in TelegramIds :
          LET uid == UserId(users, t)
          IN  (last'.op = "watch_ad" /\ last'.arg = t /\ uid # None)
              => /\ IF AdsWatched(daily_limits, uid, today) < MAX_ADS_PER_DAY
                    THEN /\ ret' = "None"
                         /\ BalanceOf(users, t)'
                               = BalanceOf(users, t) + AD_EARNING_RATE
                         /\ TotalEarnedOf(users, t)'
                               = TotalEarnedOf(users, t) + AD_EARNING_RATE
                    ELSE /\ ret' # "None"
                         /\ users' = users
                         /\ daily_limits' = daily_limits
                 /\ (AdsWatched(daily_limits, uid, today)' = MAX_ADS_PER_DAY)
                    => /\ BalanceOf(users, t)' = DAILY_EARNING_LIMIT
                       /\ TotalEarnedOf(users, t)' = DAILY_EARNING_LIMIT
      ]_vars

\* C26: daily_limits never holds two rows for one (user_id, date); the
\* first record_ad_watch of a user on a date creates the row of that date
\* with ads_watched = 1 and earned_today = amount, whatever rows of earlier
\* dates exist; a record_ad_watch leaves every row of another date or
\* another user as it was.
C26_OneCounterPerAccountAndDate ==
    [][/\ \A r1 \in daily_limits' : \A r2 \in daily_limits' :
              (r1.user_id = r2.user_id /\ r1.date = r2.date) => r1 = r2
       /\ \A t \in TelegramIds :
              LET uid == UserId(users, t)
                  others(dl) == {r \in dl : r.user_id # uid \/ r.date # today}
              IN  (last'.op = "record_ad_watch" /\ last'.arg = t /\ uid # None)
                  => /\ LimitRows(daily_limits, uid, today) = {}
                        => LimitRows(daily_limits', uid, today)
                             = {[user_id |-> uid, date |-> today,
                                 ads_watched |-> 1,
                                 earned_today |-> last'.amount]}
                     /\ others(daily_limits') = others(daily_limits)
      ]_vars

\* C26 witness: an account that has a counter of an earlier date was
\* rewarded for the first time today.
C26_Witness ==
    /\ last.op = "record_ad_watch"
    /\ UserId(users, last.arg) # None
    /\ \E r \in daily_limits :
           /\ r.user_id = UserId(users, last.arg)
           /\ r.date < today
    /\ AdsWatched(daily_limits, UserId(users, last.arg), today) = 1
    /\ EarnedToday(daily_limits, UserId(users, last.arg), today) = last.amount

\* C27: register_user for a telegram_id that already has a row returns
\* False and changes no table, with or without a referrer in the call; no
\* two rows of users have the same telegram_id.
C27_DuplicateRegistrationRefused ==
    [][/\ (last'.op = "register_user" /\ UserId(users, last'.arg) # None)
          => /\ ret' = "False"
             /\ tables' = tables
       /\ \A i \in 1..Len(users') : \A j \in 1..Len(users') :
              users'[i].telegram_id = users'[j].telegram_id => i = j
      ]_vars

\* C27 witness: an account that holds a balance was registered again, with
\* a referrer that exists, and the call returned False.
C27_Witness ==
    /\ last.op = "register_user"
    /\ last.aux # None
    /\ UserId(users, last.aux) # None
    /\ BalanceOf(users, last.arg) > 0
    /\ ret = "False"

\* what an entry point returns when it has done its work
SuccessValue(op) == IF op = "create_withdrawal" THEN "True" ELSE "None"

\* C28: record_ad_watch and create_withdrawal for a telegram_id without a
\* users row, and update_withdrawal_status for an id without a withdrawals
\* row, do not raise, return a value other than the one of success, and
\* change no table.
C28_NotFoundIsAResult ==
    [][(\/ /\ last'.op \in {"record_ad_watch", "create_withdrawal"}
           /\ UserId(users, last'.arg) = None
        \/ /\ last'.op = "update_withdrawal_status"
           /\ last'.arg \notin 1..Len(withdrawals))
       => /\ ret' # "raised"
          /\ ret' # SuccessValue(last'.op)
          /\ tables' = tables
      ]_vars

\* C29: a status update that writes 'approved' changes nothing but the
\* status and processed_at of the withdrawal it names: no users row and no
\* other withdrawal changes; one that writes 'rejected' changes, besides
\* those, only the balance of the owner; and a withdrawal has processed_at
\* set exactly when its status is not 'pending'.
C29_StatusUpdateFrame ==
    [][/\ \A w \in 1..Len(withdrawals) :
              (/\ last'.op = "update_withdrawal_status"
               /\ last'.arg = w
               /\ withdrawals'[w].status \in {"approved", "rejected"})
              => /\ \A v \in 1..Len(withdrawals) :
                        v # w => withdrawals'[v] = withdrawals[v]
                 /\ withdrawals'[w].user_id = withdrawals[w].user_id
                 /\ withdrawals'[w].amount = withdrawals[w].amount
                 /\ Len(withdrawals') = Len(withdrawals)
                 /\ Len(users') = Len(users)
                 /\ \A i \in 1..Len(users) :
                        IF /\ withdrawals'[w].status = "rejected"
                           /\ i = withdrawals[w].user_id
                        THEN users'[i] =
                                 [users[i] EXCEPT !.balance = users'[i].balance]
                        ELSE users'[i] = users[i]
       /\ \A w \in 1..Len(withdrawals') :
              withdrawals'[w].processed_at # None
                  <=> withdrawals'[w].status # "pending"
      ]_vars

\* C30: when handle_callback handles 'withdraw_action_approve_<id>' (resp.
\* 'withdraw_action_reject_<id>') for a pending withdrawal, the status of
\* the withdrawal becomes approved (resp. rejected) and the user_data of
\* the sender gets no withdraw_method.
C30_AdminButtonsSettleWithdrawal ==
    [][\A w \in 1..Len(withdrawals) :
          (/\ last'.op = "handle_callback"
           /\ last'.key \in {"approve", "reject"}
           /\ last'.aux = w
           /\ withdrawals[w].status = "pending")
          => /\ withdrawals'[w].status =
                    (IF last'.key = "approve" THEN "approved" ELSE "rejected")
             /\ user_data' = user_data
      ]_vars

\* referral rows of the earnings table that credit the account of
\* telegram_id
ReferralRows(telegram_id) ==
    {e \in 1..Len(earnings) :
        /\ earnings[e].type = "referral"
        /\ earnings[e].user_id = UserId(users, telegram_id)}

\* C31: the row of a referred account and the referrer's bonus are visible
\* together or not at all.  A register_user call with a referrer either
\* appends the account and credits the bonus (balance, total_earned and one
\* referral row) or changes no account and no earnings row; and in every
\* state each account has as many referral rows as there are accounts
\* whose referred_by names it, and no referred_by names a missing account.
C31_ReferralAllOrNothing ==
    [][/\ (last'.op = "register_user" /\ last'.aux # None)
          => \/ users' = users /\ earnings' = earnings
             \/ /\ Len(users') = Len(users) + 1
                /\ Len(earnings') = Len(earnings) + 1
                /\ users'[Len(users')].referred_by = last'.aux
                /\ earnings'[Len(earnings')].type = "referral"
                /\ BalanceOf(users', last'.aux)
                      = BalanceOf(users, last'.aux) + settings["referral_bonus"]
                /\ TotalEarnedOf(users', last'.aux)
                      = TotalEarnedOf(users, last'.aux)
                          + settings["referral_bonus"]
       /\ \A a \in TelegramIds :
              /\ Cardinality(ReferralRows(a))' = Cardinality(ReferredBy(a))'
              /\ (UserId(users, a) = None => ReferredBy(a) = {})'
      ]_vars

\* C31 witness: the registration of a new account with a referrer that
\* exists failed, and the new account has no row.
C31_Witness ==
    /\ last.op = "register_user"
    /\ last.aux # None
    /\ last.aux # last.arg
    /\ UserId(users, last.aux) # None
    /\ UserId(users, last.arg) = None
    /\ ret = "raised"

\* C32: nothing runs between a handler's check and its write.  The
\* record_ad_watch of a watch_ad handler directly follows the can_watch_ad
\* check of the same handler, and the check still passes when the write is
\* made; the create_withdrawal of a handle_withdraw_input directly follows
\* the balance check of the same handler, and the balance still covers the
\* amount.
C32_CheckAndWriteAreAdjacent ==
    [][/\ last'.op = "watch_ad_record"
          => /\ last.op = "watch_ad_check"
             /\ last.arg = last'.arg
             /\ ret = "None"
             /\ can_watch_ad(last'.arg).ok
       /\ last'.op = "withdraw_input_create"
          => /\ last.op = "withdraw_input_check"
             /\ last.arg = last'.arg
             /\ ret = "None"
             /\ last'.amount <= BalanceOf(users, last'.arg)
             /\ ret' = "True"
      ]_vars

\* C32 witness: an account funded by two watch_ad handlers has had a
\* withdrawal created by handle_withdraw_input.
C32_Witness ==
    /\ last.op = "withdraw_input_create"
    /\ ret = "True"
    /\ Len(user_ads) >= 2
    /\ Len(withdrawals) = 1

\* C33: no balance update is lost.  Whatever other calls have committed
\* since a call read the database, a committed record_ad_watch raises the
\* stored balance of its account by its amount, a committed
\* create_withdrawal lowers it by its amount, a committed
\* update_withdrawal_status(rejected) raises the owner's by the amount of
\* the withdrawal, and each leaves the balance of every other account as it
\* is, so a balance is always the initial balance plus the deltas of the
\* committed calls.
C33_NoLostBalanceUpdate ==
    [][\A i \in 1..Len(users) :
          users'[i].balance - users[i].balance =
              IF /\ last'.op = "record_ad_watch"
                 /\ i = UserId(users, last'.arg)
              THEN last'.amount
              ELSE IF /\ last'.op = "create_withdrawal"
                      /\ ret' = "True"
                      /\ i = UserId(users, last'.arg)
              THEN 0 - last'.amount
              ELSE IF /\ last'.op = "update_withdrawal_status"
                      /\ i = withdrawals[last'.arg].user_id
              THEN last'.amount
              ELSE 0
      ]_vars

\* C33 witness: a create_withdrawal committed after another call had
\* changed the balance it had read; the stored balance is not the balance
\* it read minus its amount.
C33_Witness ==
    /\ last.op = "create_withdrawal"
    /\ ret = "True"
    /\ BalanceOf(users, last.arg) # last.aux - last.amount

\* C34: an update from a chat user outside ADMIN_IDS - a command message
\* or a callback query with any data - changes no setting, adds no ad and
\* changes the status of no withdrawal.
C34_OnlyAdminsAdminister ==
    [][(/\ last'.op \in {"handle_admin_command", "handle_callback"}
        /\ last'.arg \notin ADMIN_IDS)
       => /\ settings' = settings
          /\ ads' = ads
          /\ Len(withdrawals') = Len(withdrawals)
          /\ \A w \in 1..Len(withdrawals) :
                 withdrawals'[w].status = withdrawals[w].status
      ]_vars

\* C34 witness: with a pending withdrawal in the table, a chat user outside
\* ADMIN_IDS sent /set and was refused, after an admin's /set had lowered
\* the minimum.
C34_Witness ==
    /\ last.op = "handle_admin_command"
    /\ last.key = "/set"
    /\ last.arg \notin ADMIN_IDS
    /\ ret = "Access Denied"
    /\ settings["minimum_withdrawal"] = 10
    /\ Len(withdrawals) = 1
    /\ withdrawals[1].status = "pending"

\* C35: after a chat user has chosen a payment method, the next text
\* message of that user is taken as the mobile number and never as the
\* amount: it creates no withdrawal.
C35_TextAfterMethodIsTheMobile ==
    [][\A t \in TelegramIds :
           (/\ last.op = "handle_callback"
            /\ last.key = "withdraw_method"
            /\ last.arg = t
            /\ last'.op = "handle_withdraw_input"
            /\ last'.arg = t)
           => /\ withdrawals' = withdrawals
              /\ ret' \in {"Invalid mobile number", "Enter withdrawal amount"}
      ]_vars

\* C36: running init_database again on a store that exists changes no
\* table: every setting keeps the value update_setting stored, no sample
\* ad is added to a table that has ads, and accounts, events, counters and
\* withdrawals are as before.
C36_RestartKeepsTheStore ==
    [][last'.op = "init_database" => tables' = tables]_vars

\* C36 witness: the process was restarted on a store with a changed
\* minimum, an added ad, an account, an event and a withdrawal.
C36_Witness ==
    /\ last.op = "init_database"
    /\ settings["minimum_withdrawal"] # default_settings["minimum_withdrawal"]
    /\ Len(ads) > Len(sample_ads)
    /\ Len(users) > 0
    /\ Len(earnings) > 0
    /\ Len(withdrawals) > 0

====
